---- MODULE Spec2Model ----
(***************************************************************************)
(* Room/session coordinator of goonyclicker: the socket.io server          *)
(* (server.js, and the older two-player server kept beside it) and the     *)
(* round protocol of the MultiplayerRace3D client.                         *)
(***************************************************************************)
EXTENDS Integers, Sequences, FiniteSets, TLC

\* ---------------------------------------------------------------- bounds
MaxConns == 2
NumCodes == 2
MaxScore == 1
MaxEvents == 6
MaxPipes == 3
MaxHandshake == 3
MaxY == 4
MaxReps == 2

\* ------------------------------------------------------ program constants
MaxPlayers == 4
MaxPlayersTwo == 2
DefaultTimeLimit == 120
CountdownMs == 3000
CountdownFrom == 3
\* RepCounter: MOVEMENT_THRESHOLD = 0.02 with heights in hundredths, and
\* SMOOTHING_WINDOW
MovementThreshold == 2
SmoothingWindow == 3

Conns == 1..MaxConns
Codes == 1..NumCodes
Scores == 0..MaxScore
\* timeLimit as sent by the client; 0 stands for a falsy value (undefined, 0)
TimeLimits == {0, 60}
Multipliers == {1, 2}
PlayerNames == {"p"}
NoConn == 0
NoCode == 0
Epochs == {1000, 2000}
\* what a message takes from the server to a component, in ms
Latency == {10, 50}

VARIABLES
  variant,    \* which server file runs: "server.js" or "part_000"
  connected,  \* socket ids with an open connection
  closed,     \* socket ids whose connection has ended (ids are never reused)
  rooms,      \* the registry: a function from live room codes to rooms
  order,      \* insertion order of the registry's keys (Map iteration order)
  members,    \* socket.io room membership: code -> set of socket ids
  out,        \* what the last handler emitted, in emission order
  last,       \* the event the last handler was called for: name, sender, room code
  before,     \* the registry as it was when the last handler was called
  events,     \* number of events sockets have sent on a user's or the game's behalf
  supplied,   \* the timeLimit that came with the create-room of each code, 0 if falsy
  \* one MultiplayerRace3D component per socket
  gameState,      \* 'menu' | 'lobby' | 'racing'
  roomCodeRef,    \* roomCodeRef.current
  alivePlayers,   \* the alivePlayers state
  handInits,      \* initHandTracking runs that have not finished yet
  readyTimers,    \* pending 10 s timeouts of game-start; latest: readyTimeoutRef's is one
  sharedStartTime,\* sharedStartTimeRef.current
  winnerTimers,   \* pending 2 s timeouts of the player-died handler, with their winnerId
  inbox,          \* server-to-client messages in flight, per socket, in order
  outbox,         \* client-to-server messages in flight, per socket, in order
  recv,           \* the message the last client handler ran for, and alivePlayers before it
  declared,       \* number of winner-found messages emitted that name a winner
  isRoomCreator,  \* isRoomCreatorRef.current
  revealedPipeIndex, \* revealedPipeIndexRef.current
  pipes,          \* pipesRef.current: each pipe's index in the stream and its visibility
  game,           \* isGameRunningRef, gameStartTimeRef, the countdown state and its intervals
  \* the RepCounter component
  repCount,       \* the repCount state
  stateRef,       \* stateRef.current: 'idle' | 'moving_up' | 'moving_down'
  handHistoryRef, \* handHistoryRef.current: the last heights, oldest first
  lastHandYRef    \* lastHandYRef.current, NoY for null

cvars == <<gameState, roomCodeRef, alivePlayers, handInits, readyTimers, sharedStartTime,
           winnerTimers, inbox, outbox, recv, declared>>

rvars == <<isRoomCreator, revealedPipeIndex, pipes>>

repvars == <<repCount, stateRef, handHistoryRef, lastHandYRef>>

vars == <<variant, connected, closed, rooms, order, members, out, last, before, events,
          supplied,
          gameState, roomCodeRef, alivePlayers, handInits, readyTimers, sharedStartTime,
          winnerTimers, inbox, outbox, recv, declared,
          isRoomCreator, revealedPipeIndex, pipes, game,
          repCount, stateRef, handHistoryRef, lastHandYRef>>

\* --------------------------------------------------------------- records
\* lastHandYRef.current = null
NoY == -1

\* RepCounter as mounted: useState(0), useRef('idle'), useRef([]), useRef(null)
MountRep ==
  /\ repCount = 0
  /\ stateRef = "idle"
  /\ handHistoryRef = <<>>
  /\ lastHandYRef = NoY

NoPlayer == [id |-> NoConn, name |-> "", score |-> 0, position |-> 0,
             multiplier |-> 0, currency |-> 0]

NewPlayer(c, name) == [id |-> c, name |-> name, score |-> 0, position |-> 0,
                       multiplier |-> 1, currency |-> 0]

NoMsg == [ev |-> "", to |-> {}, players |-> <<>>, roomCode |-> NoCode,
          creator |-> NoConn, timeLimit |-> 0, winner |-> NoPlayer,
          text |-> "", playerId |-> NoConn, val |-> 0]

Event(ev, c, code) == [ev |-> ev, from |-> c, roomCode |-> code]

\* socket.emit(ev, ...): to the calling socket only
ToSocket(c) == {c}
\* io.to(roomCode): every socket joined to the socket.io room
ToRoom(code) == members[code]
ToOthersEcho(c, code) == members[code]

\* socket.to(roomCode): the room without the calling socket
ToOthers(c, code) == members[code] \ {c}

\* io.to(id), id a socket's id: the socket's own room, empty once it has closed
ToId(t) == {t} \cap connected

Live(code) == code \in DOMAIN rooms

SetRoom(code, room) ==
  [k \in (DOMAIN rooms) \cup {code} |-> IF k = code THEN room ELSE rooms[k]]

ErrorToAll(c, text) == [NoMsg EXCEPT !.ev = "error", !.to = connected, !.text = text]

\* socket.emit('error', text)
ErrorTo(c, text) == [NoMsg EXCEPT !.ev = "error", !.to = ToSocket(c), !.text = text]

\* Array.prototype.find(p => p.id === id): index of the first match, 0 if none
RECURSIVE FindFrom(_, _, _)
FindFrom(ps, id, i) ==
  IF i > Len(ps) THEN 0
  ELSE IF ps[i].id = id THEN i ELSE FindFrom(ps, id, i + 1)

Find(ps, id) == FindFrom(ps, id, 1)

\* Array.prototype.filter(p => p.id !== id)
RECURSIVE FilterOut(_, _)
FilterOut(ps, id) ==
  IF ps = <<>> THEN <<>>
  ELSE IF Head(ps).id = id THEN FilterOut(Tail(ps), id)
       ELSE <<Head(ps)>> \o FilterOut(Tail(ps), id)

BetterOrEqual(current, prev) == current.score >= prev.score

\* the reducer's test: (current.score > prev.score)
Better(current, prev) == current.score > prev.score

\* players.reduce((prev, current) => Better ? current : prev), no initial value
RECURSIVE ReduceFrom(_, _, _)
ReduceFrom(ps, prev, i) ==
  IF i > Len(ps) THEN prev
  ELSE ReduceFrom(ps, IF Better(ps[i], prev) THEN ps[i] ELSE prev, i + 1)

Winner(ps) == ReduceFrom(ps, ps[1], 2)

\* startGame: the pipes created ahead, createObstacle(z, false, ...) for the
\* indices of the stream in order, none visible
FreshPipes ==
  [i \in 1..MaxPipes |-> [index |-> i - 1, visible |-> FALSE, passed |-> FALSE]]

\* isGameRunningRef, gameStartTimeRef and the countdown state as mounted (null
\* is 0); intervals: the countdown intervals that run, in the order they tick
\* epoch, receivedAt: the startTime the interval that ended the countdown was
\* created with, and when its message had arrived; gameOver: gameOverRef;
\* died, scoredDead: the player-died events emitted since the last startGame,
\* and whether an update-score was emitted after one of them
NoGame == [isGameRunning |-> FALSE, gameStartTime |-> 0, countdown |-> 0,
           intervals |-> <<>>, epoch |-> 0, receivedAt |-> 0,
           gameOver |-> FALSE, died |-> 0, scoredDead |-> FALSE]

NoRecv == [to |-> NoConn, ev |-> "", playerId |-> NoConn, alive |-> {}]

\* the component as mounted: the useState and useRef initial values
InitClients ==
  /\ gameState = [c \in Conns |-> "menu"]
  /\ roomCodeRef = [c \in Conns |-> NoCode]
  /\ alivePlayers = [c \in Conns |-> {}]
  /\ handInits = [c \in Conns |-> 0]
  /\ readyTimers = [c \in Conns |-> [pending |-> 0, latest |-> FALSE]]
  /\ sharedStartTime = [c \in Conns |-> 0]
  /\ winnerTimers = [c \in Conns |-> <<>>]
  /\ inbox = [c \in Conns |-> <<>>]
  /\ outbox = [c \in Conns |-> <<>>]
  /\ recv = NoRecv
  /\ declared = 0
  /\ isRoomCreator = [c \in Conns |-> FALSE]
  /\ revealedPipeIndex = [c \in Conns |-> 0]
  /\ pipes = [c \in Conns |-> <<>>]
  /\ game = [c \in Conns |-> NoGame]

\* ---------------------------------------------------------------- server
Init ==
  /\ InitClients
  /\ variant \in {"server.js", "part_000"}
  /\ connected = {}
  /\ closed = {}
  /\ rooms = <<>>
  /\ order = <<>>
  /\ members = [k \in Codes |-> {}]
  /\ out = <<>>
  /\ last = Event("", NoConn, NoCode)
  /\ before = <<>>
  /\ events = 0
  /\ supplied = [k \in Codes |-> 0]
  /\ MountRep

IsFour == variant = "server.js"

Connect(c) ==
  /\ c \notin connected \cup closed
  /\ connected' = connected \cup {c}
  /\ out' = <<>>
  /\ UNCHANGED <<repvars, supplied, variant, closed, rooms, order, members>>

\* socket.on('create-room'); code is the value drawn by Math.random()
CreateRoom(c, name, tl, code) ==
  /\ c \in connected
  /\ LET room == [players |-> <<NewPlayer(c, name)>>,
                  creator |-> IF IsFour THEN c ELSE NoConn,
                  gameStarted |-> FALSE,
                  timeLimit |-> IF tl = 0 THEN DefaultTimeLimit ELSE tl]
     IN /\ rooms' = SetRoom(code, room)
        /\ order' = IF Live(code) THEN order ELSE Append(order, code)
        /\ members' = [members EXCEPT ![code] = @ \cup {c}]
        /\ out' = << [NoMsg EXCEPT !.ev = "room-created", !.to = ToSocket(c),
                                   !.roomCode = code, !.playerId = c,
                                   !.players = IF IsFour THEN room.players ELSE <<>>] >>
  /\ supplied' = [supplied EXCEPT ![code] = tl]
  /\ UNCHANGED repvars
  /\ UNCHANGED <<variant, connected, closed>>

Capacity == IF IsFour THEN MaxPlayers ELSE MaxPlayersTwo

RoomFullOffByOne(code) == Len(rooms[code].players) > Capacity

\* if (room.players.length >= 4), >= 2 in the two-player server
RoomFull(code) == Len(rooms[code].players) >= Capacity

FullText == IF IsFour THEN "Room is full (max 4 players)" ELSE "Room is full"

PushFront(ps, p) == <<p>> \o ps

\* room.players.push(p)
Push(ps, p) == Append(ps, p)

\* socket.on('join-room')
JoinRoom(c, code, name) ==
  /\ c \in connected
  /\ IF ~Live(code)
       THEN /\ out' = <<ErrorTo(c, "Room not found")>>
            /\ UNCHANGED <<rooms, order, members>>
     ELSE IF RoomFull(code)
       THEN /\ out' = <<ErrorTo(c, FullText)>>
            /\ UNCHANGED <<rooms, order, members>>
     ELSE LET ps == Push(rooms[code].players, NewPlayer(c, name))
              mem == members[code] \cup {c}
              joined == [NoMsg EXCEPT !.ev = "player-joined", !.to = mem,
                                      !.players = ps, !.roomCode = code,
                                      !.creator = rooms[code].creator]
              start == (~IsFour) /\ Len(ps) = 2
          IN /\ rooms' = [rooms EXCEPT ![code].players = ps,
                                       ![code].gameStarted = IF start THEN TRUE ELSE @]
             /\ members' = [members EXCEPT ![code] = mem]
             /\ out' = IF start
                         THEN <<joined, [NoMsg EXCEPT !.ev = "game-start", !.to = mem,
                                           !.players = ps,
                                           !.timeLimit = rooms[code].timeLimit]>>
                         ELSE <<joined>>
             /\ UNCHANGED order
  /\ UNCHANGED <<repvars, supplied, variant, connected, closed>>

\* an event name the running server registers no listener for is ignored
Ignored(c) ==
  /\ c \in connected
  /\ out' = <<>>
  /\ UNCHANGED <<repvars, supplied, variant, connected, closed, rooms, order, members>>

IsCreatorAnyone(c, code) == TRUE

\* the negation of (socket.id !== room.creator)
IsCreator(c, code) == c = rooms[code].creator

\* socket.on('start-game')
StartGame(c, code) ==
  IF ~IsFour THEN Ignored(c)
  ELSE
  /\ c \in connected
  /\ IF ~Live(code)
       THEN /\ out' = <<ErrorTo(c, "Room not found")>>
            /\ UNCHANGED rooms
     ELSE IF ~IsCreator(c, code)
       THEN /\ out' = <<ErrorTo(c, "Only the room creator can start the game")>>
            /\ UNCHANGED rooms
     ELSE /\ rooms' = [rooms EXCEPT ![code].gameStarted = TRUE]
          /\ out' = << [NoMsg EXCEPT !.ev = "game-start", !.to = ToRoom(code),
                                     !.players = rooms[code].players,
                                     !.timeLimit = rooms[code].timeLimit] >>
  /\ UNCHANGED <<repvars, supplied, variant, connected, closed, order, members>>

\* socket.on('game-over')
GameOver(c, code) ==
  /\ c \in connected
  /\ IF ~Live(code)
       THEN out' = <<>>
       ELSE out' = << [NoMsg EXCEPT !.ev = "game-over", !.to = ToRoom(code),
                                    !.winner = Winner(rooms[code].players)] >>
  /\ UNCHANGED <<repvars, supplied, variant, connected, closed, rooms, order, members>>
SetScoreAll(ps, i, score) == [j \in 1..Len(ps) |-> [ps[j] EXCEPT !.score = score]]

\* player.score = score, player the entry find returned
SetScore(ps, i, score) == [ps EXCEPT ![i].score = score]

UpdateScoreAccumulate(c, code, score) ==
  /\ c \in connected
  /\ IF ~Live(code)
       THEN /\ out' = <<>>
            /\ UNCHANGED rooms
     ELSE LET i == Find(rooms[code].players, c)
          IN IF i # 0
               THEN /\ rooms' = [rooms EXCEPT ![code].players[i].score = @ + score]
                    /\ out' = << [NoMsg EXCEPT !.ev = "score-update",
                                    !.to = ToRoom(code),
                                    !.players = rooms'[code].players] >>
               ELSE /\ out' = <<>>
                    /\ UNCHANGED rooms
  /\ UNCHANGED <<repvars, supplied, variant, connected, closed, order, members>>

\* socket.on('update-score')
UpdateScore(c, code, score) ==
  /\ c \in connected
  /\ IF ~Live(code)
       THEN /\ out' = <<>>
            /\ UNCHANGED rooms
     ELSE LET i == Find(rooms[code].players, c)
          IN IF i # 0
               THEN /\ rooms' = [rooms EXCEPT ![code].players = SetScore(@, i, score)]
                    /\ out' = << [NoMsg EXCEPT !.ev = "score-update",
                                    !.to = ToRoom(code),
                                    !.players = rooms'[code].players] >>
               ELSE /\ out' = <<>>
                    /\ UNCHANGED rooms
  /\ UNCHANGED <<repvars, supplied, variant, connected, closed, order, members>>

\* socket.on('update-multiplier')
UpdateMultiplier(c, code, m) ==
  /\ c \in connected
  /\ IF ~Live(code)
       THEN /\ out' = <<>>
            /\ UNCHANGED rooms
     ELSE LET i == Find(rooms[code].players, c)
          IN IF i # 0
               THEN /\ rooms' = [rooms EXCEPT ![code].players[i].multiplier = m]
                    /\ out' = << [NoMsg EXCEPT !.ev = "score-update",
                                    !.to = ToRoom(code),
                                    !.players = rooms'[code].players] >>
               ELSE /\ out' = <<>>
                    /\ UNCHANGED rooms
  /\ UNCHANGED <<repvars, supplied, variant, connected, closed, order, members>>

\* socket.on('update-position')
UpdatePosition(c, code, alive) ==
  IF ~IsFour THEN Ignored(c)
  ELSE
  /\ c \in connected
  /\ IF ~Live(code)
       THEN out' = <<>>
       ELSE out' = << [NoMsg EXCEPT !.ev = "player-position", !.to = ToOthers(c, code),
                                    !.playerId = c, !.val = IF alive THEN 1 ELSE 0] >>
  /\ UNCHANGED <<repvars, supplied, variant, connected, closed, rooms, order, members>>

\* socket.on('player-died')
PlayerDied(c, code) ==
  IF ~IsFour THEN Ignored(c)
  ELSE
  /\ c \in connected
  /\ IF ~Live(code)
       THEN out' = <<>>
       ELSE out' = << [NoMsg EXCEPT !.ev = "player-died", !.to = ToRoom(code),
                                    !.playerId = c] >>
  /\ UNCHANGED <<repvars, supplied, variant, connected, closed, rooms, order, members>>

\* socket.on('restart-game')
RestartGame(c, code) ==
  IF ~IsFour THEN Ignored(c)
  ELSE
  /\ c \in connected
  /\ IF ~Live(code)
       THEN /\ out' = <<>>
            /\ UNCHANGED rooms
       ELSE /\ rooms' = [rooms EXCEPT ![code].gameStarted = TRUE]
            /\ out' = << [NoMsg EXCEPT !.ev = "game-restart", !.to = ToRoom(code),
                                       !.players = rooms[code].players,
                                       !.timeLimit = rooms[code].timeLimit] >>
  /\ UNCHANGED <<repvars, supplied, variant, connected, closed, order, members>>

\* socket.on('bird-flap'): relayed without looking the room up
BirdFlap(c, code) ==
  IF ~IsFour THEN Ignored(c)
  ELSE
  /\ c \in connected
  /\ out' = << [NoMsg EXCEPT !.ev = "opponent-flap", !.to = ToOthers(c, code)] >>
  /\ UNCHANGED <<repvars, supplied, variant, connected, closed, rooms, order, members>>

\* socket.on('webrtc-offer'), the same in both servers
WebrtcOffer(c, code) ==
  /\ c \in connected
  /\ out' = << [NoMsg EXCEPT !.ev = "webrtc-offer", !.to = ToOthers(c, code),
                             !.playerId = c] >>
  /\ UNCHANGED <<repvars, supplied, variant, connected, closed, rooms, order, members>>

\* socket.on('webrtc-answer')
WebrtcAnswer(c, t) ==
  /\ c \in connected
  /\ out' = << [NoMsg EXCEPT !.ev = "webrtc-answer", !.to = ToId(t)] >>
  /\ UNCHANGED <<repvars, supplied, variant, connected, closed, rooms, order, members>>

\* socket.on('webrtc-ice'): t is NoConn and code NoCode when the field is absent
WebrtcIce(c, t, code) ==
  /\ c \in connected
  /\ out' = IF t # NoConn
              THEN << [NoMsg EXCEPT !.ev = "webrtc-ice", !.to = ToId(t)] >>
            ELSE IF code # NoCode
              THEN << [NoMsg EXCEPT !.ev = "webrtc-ice", !.to = ToOthers(c, code)] >>
            ELSE <<>>
  /\ UNCHANGED <<repvars, supplied, variant, connected, closed, rooms, order, members>>

EmptiedNever(ps) == FALSE

\* if (room.players.length === 0)
Emptied(ps) == Len(ps) = 0

StayPromote(room, ps) ==
  [room EXCEPT !.players = ps,
               !.creator = IF \E i \in 1..Len(ps) : ps[i].id = @ THEN @ ELSE ps[1].id]

\* room.players = room.players.filter(...): the room keeps its other fields
Stay(room, ps) == [room EXCEPT !.players = ps]

RECURSIVE CleanUpEmitFirst(_, _, _, _, _)
CleanUpEmitFirst(ks, c, rs, os, mem) ==
  IF ks = <<>> THEN [rooms |-> rs, out |-> os]
  ELSE LET k == Head(ks)
           ps == FilterOut(rs[k].players, c)
           os2 == Append(os, [NoMsg EXCEPT !.ev = "player-left", !.to = mem[k],
                                           !.players = ps])
       IN IF Emptied(ps)
            THEN CleanUpEmitFirst(Tail(ks), c, [j \in (DOMAIN rs) \ {k} |-> rs[j]], os2, mem)
            ELSE CleanUpEmitFirst(Tail(ks), c, [rs EXCEPT ![k] = Stay(@, ps)], os2, mem)

\* the for-loop of socket.on('disconnect') over rooms.entries(), run on the
\* codes in ks; rs is the registry and os the emissions so far
RECURSIVE CleanUp(_, _, _, _, _)
CleanUp(ks, c, rs, os, mem) ==
  IF ks = <<>> THEN [rooms |-> rs, out |-> os]
  ELSE LET k == Head(ks)
           ps == FilterOut(rs[k].players, c)
       IN IF Emptied(ps)
            THEN CleanUp(Tail(ks), c, [j \in (DOMAIN rs) \ {k} |-> rs[j]], os, mem)
            ELSE CleanUp(Tail(ks), c, [rs EXCEPT ![k] = Stay(@, ps)],
                         Append(os, [NoMsg EXCEPT !.ev = "player-left", !.to = mem[k],
                                                  !.players = ps]), mem)

RECURSIVE KeepLive(_, _)
KeepLive(ks, dom) ==
  IF ks = <<>> THEN <<>>
  ELSE IF Head(ks) \in dom THEN <<Head(ks)>> \o KeepLive(Tail(ks), dom)
       ELSE KeepLive(Tail(ks), dom)

\* socket.on('disconnect'): the socket has already left its socket.io rooms
Disconnect(c) ==
  /\ c \in connected
  /\ connected' = connected \ {c}
  /\ closed' = closed \cup {c}
  /\ members' = [k \in Codes |-> members[k] \ {c}]
  /\ LET r == CleanUp(order, c, rooms, <<>>, members')
     IN /\ rooms' = r.rooms
        /\ out' = r.out
        /\ order' = KeepLive(order, DOMAIN r.rooms)
  /\ UNCHANGED <<repvars, supplied, variant>>

\* the server handles one event: the listener registered for its name runs
Received(ev, c, code) ==
  /\ events < MaxEvents
  /\ events' = events + 1
  /\ last' = Event(ev, c, code)
  /\ before' = rooms
  /\ UNCHANGED <<cvars, rvars, game>>

Next ==
  \/ \E c \in Conns : Connect(c) /\ Received("connection", c, NoCode)
  \/ \E c \in Conns, n \in PlayerNames, tl \in TimeLimits, k \in Codes :
        CreateRoom(c, n, tl, k) /\ Received("create-room", c, k)
  \/ \E c \in Conns, k \in Codes, n \in PlayerNames :
        JoinRoom(c, k, n) /\ Received("join-room", c, k)
  \/ \E c \in Conns, k \in Codes : StartGame(c, k) /\ Received("start-game", c, k)
  \/ \E c \in Conns, k \in Codes : GameOver(c, k) /\ Received("game-over", c, k)
  \/ \E c \in Conns, k \in Codes, s \in Scores :
        UpdateScore(c, k, s) /\ Received("update-score", c, k)
  \/ \E c \in Conns, k \in Codes, m \in Multipliers :
        UpdateMultiplier(c, k, m) /\ Received("update-multiplier", c, k)
  \/ \E c \in Conns, k \in Codes, a \in BOOLEAN :
        UpdatePosition(c, k, a) /\ Received("update-position", c, k)
  \/ \E c \in Conns, k \in Codes : PlayerDied(c, k) /\ Received("player-died", c, k)
  \/ \E c \in Conns, k \in Codes : RestartGame(c, k) /\ Received("restart-game", c, k)
  \/ \E c \in Conns, k \in Codes : BirdFlap(c, k) /\ Received("bird-flap", c, k)
  \/ \E c \in Conns : Disconnect(c) /\ Received("disconnect", c, NoCode)

Spec == Init /\ [][Next]_vars

\* ------------------------------------------------ relayed signals
\* rooms made, joined and left, and the handlers that relay a signal of one
\* socket to others without a write to the registry
NextRelay ==
  \/ \E c \in Conns : Connect(c) /\ Received("connection", c, NoCode)
  \/ \E c \in Conns, n \in PlayerNames, k \in Codes :
        CreateRoom(c, n, 0, k) /\ Received("create-room", c, k)
  \/ \E c \in Conns, k \in Codes, n \in PlayerNames :
        JoinRoom(c, k, n) /\ Received("join-room", c, k)
  \/ \E c \in Conns, k \in Codes, a \in BOOLEAN :
        UpdatePosition(c, k, a) /\ Received("update-position", c, k)
  \/ \E c \in Conns, k \in Codes : BirdFlap(c, k) /\ Received("bird-flap", c, k)
  \/ \E c \in Conns, k \in Codes : WebrtcOffer(c, k) /\ Received("webrtc-offer", c, k)
  \/ \E c \in Conns, t \in Conns : WebrtcAnswer(c, t) /\ Received("webrtc-answer", c, NoCode)
  \/ \E c \in Conns, t \in Conns \cup {NoConn}, k \in Codes \cup {NoCode} :
        WebrtcIce(c, t, k) /\ Received("webrtc-ice", c, k)
  \/ \E c \in Conns : Disconnect(c) /\ Received("disconnect", c, NoCode)

SpecRelay == Init /\ [][NextRelay]_vars

\* ------------------------------------------ game-over on arbitrary rooms
\* a room of server.js as a sequence of joins and score updates leaves it:
\* update-score writes the first entry of an id only, so a later entry of the
\* same id still carries the score it was pushed with
RoomsOfOne ==
  { ps \in UNION { [1..n -> [id : Conns, name : PlayerNames, score : Scores,
                             position : {0}, multiplier : {1}, currency : {0}]]
                   : n \in 1..MaxPlayers } :
      \A j \in 1..Len(ps) : (Find(ps, ps[j].id) # j) => ps[j].score = 0 }

InitWinner ==
  /\ InitClients
  /\ variant = "server.js"
  /\ connected = Conns
  /\ closed = {}
  /\ \E ps \in RoomsOfOne, st \in BOOLEAN :
       rooms = [k \in {1} |-> [players |-> ps, creator |-> ps[1].id,
                               gameStarted |-> st, timeLimit |-> DefaultTimeLimit]]
  /\ order = <<1>>
  /\ members = [k \in Codes |-> IF k = 1 THEN Conns ELSE {}]
  /\ out = <<>>
  /\ last = Event("", NoConn, NoCode)
  /\ before = <<>>
  /\ events = 0
  /\ supplied = [k \in Codes |-> 0]
  /\ MountRep

NextWinner ==
  \E c \in Conns, k \in Codes : GameOver(c, k) /\ Received("game-over", c, k)

SpecWinner == InitWinner /\ [][NextWinner]_vars

\* ------------------------------------------------- MultiplayerRace3D client
\* the players state as the socket handlers see it: they are registered once,
\* by an effect with an empty dependency list, and close over the first
\* render's value, useState([])
HandlerPlayers == <<>>

ClientMsg(ev, code) ==
  [ev |-> ev, roomCode |-> code, score |-> 0, winnerId |-> NoConn, index |-> 0]

DeliverFirst(msgs, open) ==
  [c \in Conns |-> IF c \in open
                     THEN SelectSeq(msgs, LAMBDA m : c \in m.to) \o inbox[c]
                     ELSE <<>>]

\* the emissions of a handler arrive, in order, at every open socket addressed
Deliver(msgs, open) ==
  [c \in Conns |-> IF c \in open
                     THEN inbox[c] \o SelectSeq(msgs, LAMBDA m : c \in m.to)
                     ELSE <<>>]

\* a socket sends an event the user or the game loop asks for; the server's
\* listener runs and what it emits is on its way to the components
Sent(ev, c, code) ==
  /\ events < MaxEvents
  /\ events' = events + 1
  /\ last' = Event(ev, c, code)
  /\ before' = rooms
  /\ inbox' = Deliver(out', connected')
  /\ UNCHANGED rvars

\* createRoom, a button of the menu: the payload has no timeLimit field, the
\* server reads undefined
UserCreateRoom(c, name, code) ==
  /\ gameState[c] = "menu"
  /\ CreateRoom(c, name, 0, code)
  /\ Sent("create-room", c, code)
  /\ UNCHANGED <<gameState, roomCodeRef, alivePlayers, handInits, readyTimers,
                 sharedStartTime, winnerTimers, outbox, recv, declared, game>>

\* joinRoom, a button of the menu: roomCodeRef is set before the answer is known
UserJoinRoom(c, code, name) ==
  /\ gameState[c] = "menu"
  /\ JoinRoom(c, code, name)
  /\ Sent("join-room", c, code)
  /\ roomCodeRef' = [roomCodeRef EXCEPT ![c] = code]
  /\ UNCHANGED <<gameState, alivePlayers, handInits, readyTimers,
                 sharedStartTime, winnerTimers, outbox, recv, declared, game>>

\* startGameManually, a button of the lobby
UserStartGame(c) ==
  /\ gameState[c] = "lobby"
  /\ roomCodeRef[c] # NoCode
  /\ StartGame(c, roomCodeRef[c])
  /\ Sent("start-game", c, roomCodeRef[c])
  /\ UNCHANGED <<gameState, roomCodeRef, alivePlayers, handInits, readyTimers,
                 sharedStartTime, winnerTimers, outbox, recv, declared, game>>

\* a socket reports its death for the room code it holds
SocketDied(c) ==
  /\ roomCodeRef[c] # NoCode
  /\ PlayerDied(c, roomCodeRef[c])
  /\ Sent("player-died", c, roomCodeRef[c])
  /\ UNCHANGED <<gameState, roomCodeRef, alivePlayers, handInits, readyTimers,
                 sharedStartTime, winnerTimers, outbox, recv, declared, game>>

\* the component unmounts or the tab goes: the socket is closed, and whatever
\* its timers would still emit is sent by no open socket
SocketClosed(c) ==
  /\ Disconnect(c)
  /\ Sent("disconnect", c, NoCode)
  /\ outbox' = [outbox EXCEPT ![c] = <<>>]
  /\ handInits' = [handInits EXCEPT ![c] = 0]
  /\ readyTimers' = [readyTimers EXCEPT ![c] = [pending |-> 0, latest |-> FALSE]]
  /\ winnerTimers' = [winnerTimers EXCEPT ![c] = <<>>]
  /\ game' = [game EXCEPT ![c].isGameRunning = FALSE]
  /\ UNCHANGED <<gameState, roomCodeRef, alivePlayers, sharedStartTime, recv, declared>>

SocketOpened(c) ==
  /\ Connect(c)
  /\ Sent("connection", c, NoCode)
  /\ UNCHANGED <<gameState, roomCodeRef, alivePlayers, handInits, readyTimers,
                 sharedStartTime, winnerTimers, outbox, recv, declared, game>>

\* clearTimeout(readyTimeoutRef.current); readyTimeoutRef.current = null
ClearReady(t) ==
  IF t.latest THEN [pending |-> t.pending - 1, latest |-> FALSE] ELSE t

\* newSocket.on('player-died'): what the updater of setAlivePlayers emits and
\* schedules for the new alive set
DiedOutbox(c, newAlive) ==
  IF Cardinality(newAlive) = 1
    THEN LET winnerId == CHOOSE w \in newAlive : TRUE
             i == Find(HandlerPlayers, winnerId)
         IN IF i # 0
              THEN Append(outbox[c], [ClientMsg("update-score", roomCodeRef[c])
                                        EXCEPT !.score = HandlerPlayers[i].score + 1])
              ELSE outbox[c]
    ELSE outbox[c]

DiedTimers(c, newAlive) ==
  IF Cardinality(newAlive) = 1
    THEN LET winnerId == CHOOSE w \in newAlive : TRUE
         IN IF Find(HandlerPlayers, winnerId) # 0
              THEN Append(winnerTimers[c], winnerId)
              ELSE winnerTimers[c]
  ELSE IF Cardinality(newAlive) = 0
    THEN Append(winnerTimers[c], NoConn)
    ELSE winnerTimers[c]

\* the listener the component registered for the next message of the socket
ClientRecv(c) ==
  /\ c \in connected
  /\ inbox[c] # <<>>
  /\ LET m == Head(inbox[c])
     IN /\ inbox' = [inbox EXCEPT ![c] = Tail(@)]
        /\ recv' = [to |-> c, ev |-> m.ev, playerId |-> m.playerId,
                    alive |-> alivePlayers[c]]
        /\ gameState' =
             [gameState EXCEPT ![c] =
                IF m.ev \in {"room-created", "player-joined", "return-to-lobby"} THEN "lobby"
                ELSE IF m.ev = "game-start" THEN "racing" ELSE @]
        /\ isRoomCreator' =
             [isRoomCreator EXCEPT ![c] = IF m.ev = "room-created" THEN TRUE ELSE @]
        /\ roomCodeRef' =
             [roomCodeRef EXCEPT ![c] =
                IF m.ev \in {"room-created", "player-joined"} THEN m.roomCode ELSE @]
        /\ alivePlayers' =
             [alivePlayers EXCEPT ![c] =
                IF m.ev = "game-start" THEN { m.players[i].id : i \in 1..Len(m.players) }
                ELSE IF m.ev = "player-died" THEN @ \ {m.playerId} ELSE @]
        /\ handInits' = [handInits EXCEPT ![c] = IF m.ev = "game-start" THEN @ + 1 ELSE @]
        /\ \E d \in Latency :
             game' =
               [game EXCEPT ![c] =
                  IF m.ev = "all-players-ready"
                    THEN [@ EXCEPT !.countdown = CountdownFrom,
                                   !.intervals = Append(@, [startTime |-> m.val,
                                                            at |-> m.val + d])]
                  ELSE IF m.ev = "return-to-lobby" THEN [@ EXCEPT !.isGameRunning = FALSE]
                  ELSE @]
        /\ readyTimers' =
             [readyTimers EXCEPT ![c] =
                IF m.ev = "game-start" THEN [pending |-> @.pending + 1, latest |-> TRUE]
                ELSE IF m.ev \in {"all-players-ready", "return-to-lobby"} THEN ClearReady(@)
                ELSE @]
        /\ sharedStartTime' =
             [sharedStartTime EXCEPT ![c] = IF m.ev = "all-players-ready" THEN m.val ELSE @]
        /\ outbox' = [outbox EXCEPT ![c] =
                        IF m.ev = "player-died" THEN DiedOutbox(c, alivePlayers'[c]) ELSE @]
        /\ winnerTimers' = [winnerTimers EXCEPT ![c] =
                        IF m.ev = "player-died" THEN DiedTimers(c, alivePlayers'[c]) ELSE @]
  /\ UNCHANGED <<repvars, supplied, variant, connected, closed, rooms, order, members, out, last, before,
                 events, declared, revealedPipeIndex, pipes>>

\* initHandTracking ends, with the camera or in its catch block: either way it
\* emits player-ready when it has a socket and a room code, and calls startGame
HandInitDone(c) ==
  /\ c \in connected
  /\ handInits[c] > 0
  /\ handInits' = [handInits EXCEPT ![c] = @ - 1]
  /\ revealedPipeIndex' = [revealedPipeIndex EXCEPT ![c] = -1]
  /\ pipes' = [pipes EXCEPT ![c] = FreshPipes]
  /\ game' = [game EXCEPT ![c].isGameRunning = FALSE, ![c].gameStartTime = 0,
                          ![c].gameOver = FALSE, ![c].died = 0,
                          ![c].scoredDead = FALSE]
  /\ outbox' = [outbox EXCEPT ![c] =
                  IF roomCodeRef[c] # NoCode
                    THEN Append(@, ClientMsg("player-ready", roomCodeRef[c])) ELSE @]
  /\ UNCHANGED <<repvars, supplied, variant, connected, closed, rooms, order, members, out, last, before,
                 events, gameState, roomCodeRef, alivePlayers, readyTimers,
                 sharedStartTime, winnerTimers, inbox, recv, declared, isRoomCreator>>

\* the 10 s timeout of game-start fires (timeouts of equal delay fire in the
\* order they were set, so readyTimeoutRef's is the last of the pending ones)
ReadyTimeout(c) ==
  /\ c \in connected
  /\ readyTimers[c].pending > 0
  /\ readyTimers' = [readyTimers EXCEPT ![c] =
                       [pending |-> @.pending - 1,
                        latest |-> @.latest /\ @.pending > 1]]
  /\ outbox' = [outbox EXCEPT ![c] =
                  Append(@, ClientMsg("force-start-countdown", roomCodeRef[c]))]
  /\ UNCHANGED <<repvars, supplied, variant, connected, closed, rooms, order, members, out, last, before,
                 events, gameState, roomCodeRef, alivePlayers, handInits,
                 sharedStartTime, winnerTimers, inbox, recv, declared,
                 isRoomCreator, revealedPipeIndex, pipes, game>>

\* a 2 s timeout of the player-died handler fires
WinnerTimeout(c) ==
  /\ c \in connected
  /\ winnerTimers[c] # <<>>
  /\ winnerTimers' = [winnerTimers EXCEPT ![c] = Tail(@)]
  /\ outbox' = [outbox EXCEPT ![c] =
                  Append(@, [ClientMsg("winner-found", roomCodeRef[c])
                               EXCEPT !.winnerId = Head(winnerTimers[c])])]
  /\ declared' = IF Head(winnerTimers[c]) # NoConn THEN declared + 1 ELSE declared
  /\ UNCHANGED <<repvars, supplied, variant, connected, closed, rooms, order, members, out, last, before,
                 events, gameState, roomCodeRef, alivePlayers, handInits, readyTimers,
                 sharedStartTime, inbox, recv, isRoomCreator, revealedPipeIndex, pipes, game>>

\* the server takes the next message of a socket: the listener registered for
\* its name runs; server.js registers none for player-ready,
\* force-start-countdown and winner-found, so for those nothing runs
ServerRecv(c) ==
  /\ c \in connected
  /\ outbox[c] # <<>>
  /\ outbox' = [outbox EXCEPT ![c] = Tail(@)]
  /\ LET m == Head(outbox[c])
     IN IF m.ev = "update-score"
          THEN /\ UpdateScore(c, m.roomCode, m.score)
               /\ last' = Event(m.ev, c, m.roomCode)
               /\ before' = rooms
               /\ inbox' = Deliver(out', connected')
          ELSE IF m.ev = "player-died"
          THEN /\ PlayerDied(c, m.roomCode)
               /\ last' = Event(m.ev, c, m.roomCode)
               /\ before' = rooms
               /\ inbox' = Deliver(out', connected')
          ELSE UNCHANGED <<repvars, supplied, variant, connected, closed, rooms, order, members, out,
                           last, before, inbox>>
  /\ UNCHANGED <<events, gameState, roomCodeRef, alivePlayers, handInits, readyTimers,
                 sharedStartTime, winnerTimers, recv, declared,
                 isRoomCreator, revealedPipeIndex, pipes, game>>

InitRound ==
  /\ Init
  /\ variant = "server.js"

NextRound ==
  \/ \E c \in Conns : SocketOpened(c)
  \/ \E c \in Conns, n \in PlayerNames, k \in Codes : UserCreateRoom(c, n, k)
  \/ \E c \in Conns, k \in Codes, n \in PlayerNames : UserJoinRoom(c, k, n)
  \/ \E c \in Conns : UserStartGame(c)
  \/ \E c \in Conns : SocketDied(c)
  \/ \E c \in Conns : SocketClosed(c)
  \/ \E c \in Conns : ClientRecv(c)
  \/ \E c \in Conns : HandInitDone(c)
  \/ \E c \in Conns : ReadyTimeout(c)
  \/ \E c \in Conns : WinnerTimeout(c)
  \/ \E c \in Conns : ServerRecv(c)

SpecRound == InitRound /\ [][NextRound]_vars

\* --------------------------------------------- broadcasts and observers
\* the game loop reports the local score: emit('update-score', {roomCode, score})
ScoreReported(c, s) ==
  /\ roomCodeRef[c] # NoCode
  /\ UpdateScore(c, roomCodeRef[c], s)
  /\ Sent("update-score", c, roomCodeRef[c])
  /\ UNCHANGED <<gameState, roomCodeRef, alivePlayers, handInits, readyTimers,
                 sharedStartTime, winnerTimers, outbox, recv, declared, game>>

\* a socket asks for a rematch in the room whose code it holds
SocketRestart(c) ==
  /\ roomCodeRef[c] # NoCode
  /\ RestartGame(c, roomCodeRef[c])
  /\ Sent("restart-game", c, roomCodeRef[c])
  /\ UNCHANGED <<gameState, roomCodeRef, alivePlayers, handInits, readyTimers,
                 sharedStartTime, winnerTimers, outbox, recv, declared, game>>

\* the server's handlers that broadcast to a room, and the components'
\* listeners taking the broadcasts off their sockets
NextOrder ==
  \/ \E c \in Conns : SocketOpened(c)
  \/ \E c \in Conns, n \in PlayerNames, k \in Codes : UserCreateRoom(c, n, k)
  \/ \E c \in Conns, k \in Codes, n \in PlayerNames : UserJoinRoom(c, k, n)
  \/ \E c \in Conns : UserStartGame(c)
  \/ \E c \in Conns, s \in Scores : ScoreReported(c, s)
  \/ \E c \in Conns : SocketDied(c)
  \/ \E c \in Conns : SocketRestart(c)
  \/ \E c \in Conns : SocketClosed(c)
  \/ \E c \in Conns : ClientRecv(c)

SpecOrder == InitRound /\ [][NextOrder]_vars

\* ------------------------------------------------------- obstacle reveal
\* the visible flags of a pipe's four meshes set to true
Show(ps, i) == [ps EXCEPT ![i].visible = TRUE]

\* for (let i = 0; i <= index && i < pipesRef.current.length; i++): positions
\* in the array, which count from 0
RECURSIVE ShowUpTo(_, _, _)
ShowUpTo(ps, index, i) ==
  IF i <= index /\ i < Len(ps) THEN ShowUpTo(Show(ps, i + 1), index, i + 1) ELSE ps

\* newSocket.on('reveal-pipe')
OnRevealPipe(c, index) ==
  /\ revealedPipeIndex' =
       [revealedPipeIndex EXCEPT ![c] = IF index > @ THEN index ELSE @]
  /\ pipes' = [pipes EXCEPT ![c] = ShowUpTo(@, index, 0)]
  /\ UNCHANGED <<repvars, supplied, variant, connected, closed, rooms, order, members, out, last, before,
                 events, cvars, game, isRoomCreator>>

\* updateGame, pipe reveal logic of the room creator's frame; pipesToReveal is
\* Math.floor(elapsedGameTimeSec / 0.67) at the time of the frame
HostFrame(c, pipesToReveal) ==
  /\ game[c].isGameRunning
  /\ isRoomCreator[c]
  /\ roomCodeRef[c] # NoCode
  /\ pipesToReveal > revealedPipeIndex[c]
  /\ pipesToReveal < MaxPipes
  /\ revealedPipeIndex' = [revealedPipeIndex EXCEPT ![c] = pipesToReveal]
  /\ outbox' = [outbox EXCEPT ![c] =
                  Append(@, [ClientMsg("reveal-pipe", roomCodeRef[c])
                               EXCEPT !.index = pipesToReveal])]
  /\ pipes' = [pipes EXCEPT ![c] =
                 IF pipesToReveal + 1 <= Len(@) THEN Show(@, pipesToReveal + 1) ELSE @]
  /\ UNCHANGED <<repvars, supplied, variant, connected, closed, rooms, order, members, out, last, before,
                 events, gameState, roomCodeRef, alivePlayers, handInits, readyTimers,
                 sharedStartTime, winnerTimers, inbox, recv, declared, game, isRoomCreator>>

\* updateGame, remove off-screen pipes: the pipe that has travelled furthest,
\* the first of the array, has passed z > 20
RemovePipe(c) ==
  /\ pipes[c] # <<>>
  /\ pipes' = [pipes EXCEPT ![c] = Tail(@)]
  /\ UNCHANGED <<repvars, supplied, variant, connected, closed, rooms, order, members, out, last, before,
                 events, cvars, game, isRoomCreator, revealedPipeIndex>>

\* components in a round, each after its startGame; the one that handled
\* room-created is the room's creator
InitReveal ==
  /\ variant = "server.js"
  /\ connected = Conns
  /\ closed = {}
  /\ rooms = <<>>
  /\ order = <<>>
  /\ members = [k \in Codes |-> {}]
  /\ out = <<>>
  /\ last = Event("", NoConn, NoCode)
  /\ before = <<>>
  /\ events = 0
  /\ supplied = [k \in Codes |-> 0]
  /\ MountRep
  /\ gameState = [c \in Conns |-> "racing"]
  /\ roomCodeRef = [c \in Conns |-> 1]
  /\ alivePlayers = [c \in Conns |-> Conns]
  /\ handInits = [c \in Conns |-> 0]
  /\ readyTimers = [c \in Conns |-> [pending |-> 0, latest |-> FALSE]]
  /\ sharedStartTime = [c \in Conns |-> 0]
  /\ winnerTimers = [c \in Conns |-> <<>>]
  /\ inbox = [c \in Conns |-> <<>>]
  /\ outbox = [c \in Conns |-> <<>>]
  /\ recv = NoRecv
  /\ declared = 0
  /\ isRoomCreator = [c \in Conns |-> c = 1]
  /\ revealedPipeIndex = [c \in Conns |-> -1]
  /\ pipes = [c \in Conns |-> FreshPipes]
  /\ game = [c \in Conns |-> [NoGame EXCEPT !.isGameRunning = TRUE,
                                             !.gameStartTime = 1000 + CountdownMs]]

NextReveal ==
  \/ \E c \in Conns, index \in 0..(MaxPipes - 1) : OnRevealPipe(c, index)
  \/ \E c \in Conns, t \in 0..MaxPipes : HostFrame(c, t)
  \/ \E c \in Conns : RemovePipe(c)

SpecReveal == InitReveal /\ [][NextReveal]_vars

\* ------------------------------------------------- countdown of a round
GameStartTimeLocal(startTime, at) == at + CountdownMs

\* gameStartTimeRef.current = startTime + 3000
GameStartTime(startTime, at) == startTime + CountdownMs

\* a countdown interval ticks: the updater of setCountdown. Intervals of one
\* period tick in turn, so the one that ticked goes behind the others
CountdownTick(c) ==
  /\ game[c].intervals # <<>>
  /\ LET g == game[c]
         i == Head(g.intervals)
     IN game' =
          [game EXCEPT ![c] =
             IF g.countdown <= 1
               THEN [g EXCEPT !.isGameRunning = TRUE,
                              !.gameStartTime = GameStartTime(i.startTime, i.at),
                              !.countdown = 0,
                              !.intervals = Tail(g.intervals),
                              !.epoch = i.startTime,
                              !.receivedAt = i.at]
               ELSE [g EXCEPT !.countdown = @ - 1,
                              !.intervals = Append(Tail(@), i)]]
  /\ UNCHANGED <<repvars, supplied, variant, connected, closed, rooms, order, members, out, last, before,
                 events, cvars, rvars>>

\* the sockets of the components in a round bring a message of the handshake:
\* all-players-ready with its startTime, or return-to-lobby
Arrives(ev, startTime) ==
  /\ events < MaxEvents
  /\ events' = events + 1
  /\ \E c \in connected : gameState[c] = "racing"
  /\ inbox' = [c \in Conns |->
                 IF c \in connected /\ gameState[c] = "racing"
                   THEN Append(inbox[c], [NoMsg EXCEPT !.ev = ev, !.to = {c},
                                                      !.val = startTime])
                   ELSE inbox[c]]
  /\ UNCHANGED <<repvars, supplied, variant, connected, closed, rooms, order, members, out, last, before,
                 gameState, roomCodeRef, alivePlayers, handInits, readyTimers,
                 sharedStartTime, winnerTimers, outbox, recv, declared, game, rvars>>

\* the creator in the lobby of its room, the other component in the menu, both
\* sockets connected: the state after create-room and its room-created
InitCountdown ==
  /\ variant = "server.js"
  /\ connected = Conns
  /\ closed = {}
  /\ rooms = [k \in {1} |-> [players |-> <<NewPlayer(1, "p")>>, creator |-> 1,
                              gameStarted |-> FALSE, timeLimit |-> DefaultTimeLimit]]
  /\ order = <<1>>
  /\ members = [k \in Codes |-> IF k = 1 THEN {1} ELSE {}]
  /\ out = <<>>
  /\ last = Event("", NoConn, NoCode)
  /\ before = <<>>
  /\ events = MaxEvents - MaxHandshake
  /\ supplied = [k \in Codes |-> 0]
  /\ MountRep
  /\ gameState = [c \in Conns |-> IF c = 1 THEN "lobby" ELSE "menu"]
  /\ roomCodeRef = [c \in Conns |-> IF c = 1 THEN 1 ELSE NoCode]
  /\ alivePlayers = [c \in Conns |-> {}]
  /\ handInits = [c \in Conns |-> 0]
  /\ readyTimers = [c \in Conns |-> [pending |-> 0, latest |-> FALSE]]
  /\ sharedStartTime = [c \in Conns |-> 0]
  /\ winnerTimers = [c \in Conns |-> <<>>]
  /\ inbox = [c \in Conns |-> <<>>]
  /\ outbox = [c \in Conns |-> <<>>]
  /\ recv = NoRecv
  /\ declared = 0
  /\ isRoomCreator = [c \in Conns |-> c = 1]
  /\ revealedPipeIndex = [c \in Conns |-> 0]
  /\ pipes = [c \in Conns |-> <<>>]
  /\ game = [c \in Conns |-> NoGame]

\* the handshake of a round as a component lives it: its listeners, its
\* timers and the end of its camera setup
NextCountdown ==
  \/ \E c \in Conns, n \in PlayerNames : UserJoinRoom(c, 1, n)
  \/ \E c \in Conns : UserStartGame(c)
  \/ \E t \in Epochs : Arrives("all-players-ready", t)
  \/ Arrives("return-to-lobby", 0)
  \/ \E c \in Conns : ClientRecv(c)
  \/ \E c \in Conns : HandInitDone(c)
  \/ \E c \in Conns : ReadyTimeout(c)
  \/ \E c \in Conns : CountdownTick(c)

SpecCountdown == InitCountdown /\ [][NextCountdown]_vars

\* ------------------------------------------------------ reveal authority
\* component 2 in the lobby of the room it created, component 1 in the menu
\* with the room-created of the room it created on its way
InitAuthority ==
  /\ variant = "server.js"
  /\ connected = Conns
  /\ closed = {}
  /\ rooms = [k \in {1, 2} |-> [players |-> <<NewPlayer(k, "p")>>, creator |-> k,
                                 gameStarted |-> FALSE, timeLimit |-> DefaultTimeLimit]]
  /\ order = <<2, 1>>
  /\ members = [k \in Codes |-> {k}]
  /\ out = <<>>
  /\ last = Event("", NoConn, NoCode)
  /\ before = <<>>
  /\ events = MaxEvents - MaxHandshake
  /\ supplied = [k \in Codes |-> 0]
  /\ MountRep
  /\ gameState = [c \in Conns |-> IF c = 2 THEN "lobby" ELSE "menu"]
  /\ roomCodeRef = [c \in Conns |-> IF c = 2 THEN 2 ELSE NoCode]
  /\ alivePlayers = [c \in Conns |-> {}]
  /\ handInits = [c \in Conns |-> 0]
  /\ readyTimers = [c \in Conns |-> [pending |-> 0, latest |-> FALSE]]
  /\ sharedStartTime = [c \in Conns |-> 0]
  /\ winnerTimers = [c \in Conns |-> <<>>]
  /\ inbox = [c \in Conns |->
                IF c = 1
                  THEN << [NoMsg EXCEPT !.ev = "room-created", !.to = ToSocket(1),
                                        !.roomCode = 1, !.playerId = 1,
                                        !.players = <<NewPlayer(1, "p")>>] >>
                  ELSE <<>>]
  /\ outbox = [c \in Conns |-> <<>>]
  /\ recv = NoRecv
  /\ declared = 0
  /\ isRoomCreator = [c \in Conns |-> c = 2]
  /\ revealedPipeIndex = [c \in Conns |-> 0]
  /\ pipes = [c \in Conns |-> <<>>]
  /\ game = [c \in Conns |-> NoGame]

\* a room joined from the menu, a round started and counted down, and
\* the frames of the game loop that reveal pipes
NextAuthority ==
  \/ \E c \in Conns, k \in Codes, n \in PlayerNames : UserJoinRoom(c, k, n)
  \/ \E c \in Conns : UserStartGame(c)
  \/ Arrives("all-players-ready", 1000)
  \/ \E c \in Conns : ClientRecv(c)
  \/ \E c \in Conns : HandInitDone(c)
  \/ \E c \in Conns : CountdownTick(c)
  \/ \E c \in Conns, t \in 0..(MaxPipes - 1) : HostFrame(c, t)

SpecAuthority == InitAuthority /\ [][NextAuthority]_vars

\* ------------------------------------------------- deaths of a round
AliveAlways(c) == TRUE

\* if (!gameOverRef.current): the checks of updateGame for players still alive
Alive(c) == ~game[c].gameOver

\* updateGame, bounds check and collision check: the bird is out of bounds or
\* hits a pipe; the player is dead from then on and the room is told
Crash(c) ==
  /\ c \in connected
  /\ game[c].isGameRunning
  /\ Alive(c)
  /\ game' = [game EXCEPT ![c].gameOver = TRUE, ![c].died = @ + 1]
  /\ outbox' = [outbox EXCEPT ![c] =
                  IF roomCodeRef[c] # NoCode
                    THEN Append(@, ClientMsg("player-died", roomCodeRef[c])) ELSE @]
  /\ UNCHANGED <<repvars, supplied, variant, connected, closed, rooms, order, members, out, last, before,
                 events, gameState, roomCodeRef, alivePlayers, handInits, readyTimers,
                 sharedStartTime, winnerTimers, inbox, recv, declared, rvars>>

\* updateGame, score check: the nearest pipe not yet passed goes behind the
\* bird; the score sent is myScore + 1 with the myScore the loop's closure
\* holds, 0 as mounted
PassPipe(c) ==
  /\ c \in connected
  /\ game[c].isGameRunning
  /\ Alive(c)
  /\ \E i \in 1..Len(pipes[c]) :
       /\ ~pipes[c][i].passed
       /\ \A j \in 1..(i - 1) : pipes[c][j].passed
       /\ pipes' = [pipes EXCEPT ![c][i].passed = TRUE]
  /\ game' = [game EXCEPT ![c].scoredDead = @ \/ (roomCodeRef[c] # NoCode /\ game[c].died > 0)]
  /\ outbox' = [outbox EXCEPT ![c] =
                  IF roomCodeRef[c] # NoCode
                    THEN Append(@, [ClientMsg("update-score", roomCodeRef[c])
                                      EXCEPT !.score = 1])
                    ELSE @]
  /\ UNCHANGED <<repvars, supplied, variant, connected, closed, rooms, order, members, out, last, before,
                 events, gameState, roomCodeRef, alivePlayers, handInits, readyTimers,
                 sharedStartTime, winnerTimers, inbox, recv, declared,
                 isRoomCreator, revealedPipeIndex>>

\* a round from the lobby to the deaths: the handshake, the frames of the
\* game loop and what the server does with what they emit
NextDeath ==
  \/ \E c \in Conns : UserStartGame(c)
  \/ \E t \in Epochs : Arrives("all-players-ready", t)
  \/ Arrives("return-to-lobby", 0)
  \/ \E c \in Conns : ClientRecv(c)
  \/ \E c \in Conns : HandInitDone(c)
  \/ \E c \in Conns : CountdownTick(c)
  \/ \E c \in Conns : Crash(c)
  \/ \E c \in Conns : PassPipe(c)
  \/ \E c \in Conns : ServerRecv(c)

SpecDeath == InitCountdown /\ [][NextDeath]_vars

\* ------------------------------------------------------ end of a race
\* both components in the lobby of room 1, which component 1 created and
\* component 2 joined, with every message of that handled
InitRace ==
  /\ variant = "server.js"
  /\ connected = Conns
  /\ closed = {}
  /\ rooms = [k \in {1} |-> [players |-> [i \in 1..MaxConns |-> NewPlayer(i, "p")],
                              creator |-> 1, gameStarted |-> FALSE,
                              timeLimit |-> DefaultTimeLimit]]
  /\ order = <<1>>
  /\ members = [k \in Codes |-> IF k = 1 THEN Conns ELSE {}]
  /\ out = <<>>
  /\ last = Event("", NoConn, NoCode)
  /\ before = <<>>
  /\ events = MaxEvents - MaxHandshake
  /\ supplied = [k \in Codes |-> 0]
  /\ MountRep
  /\ gameState = [c \in Conns |-> "lobby"]
  /\ roomCodeRef = [c \in Conns |-> 1]
  /\ alivePlayers = [c \in Conns |-> {}]
  /\ handInits = [c \in Conns |-> 0]
  /\ readyTimers = [c \in Conns |-> [pending |-> 0, latest |-> FALSE]]
  /\ sharedStartTime = [c \in Conns |-> 0]
  /\ winnerTimers = [c \in Conns |-> <<>>]
  /\ inbox = [c \in Conns |-> <<>>]
  /\ outbox = [c \in Conns |-> <<>>]
  /\ recv = NoRecv
  /\ declared = 0
  /\ isRoomCreator = [c \in Conns |-> c = 1]
  /\ revealedPipeIndex = [c \in Conns |-> 0]
  /\ pipes = [c \in Conns |-> <<>>]
  /\ game = [c \in Conns |-> NoGame]

\* a round started from the lobby, the players' deaths, and what the
\* components and the server do with them
NextTie ==
  \/ \E c \in Conns : UserStartGame(c)
  \/ \E c \in Conns : SocketDied(c)
  \/ \E c \in Conns : ClientRecv(c)
  \/ \E c \in Conns : HandInitDone(c)
  \/ \E c \in Conns : ReadyTimeout(c)
  \/ \E c \in Conns : WinnerTimeout(c)
  \/ \E c \in Conns : ServerRecv(c)

SpecTie == InitRace /\ [][NextTie]_vars

\* ---------------------------------------------------------- RepCounter
\* the wrist heights a frame can bring, in hundredths of the image height
HandYs == 0..MaxY

\* no hand in the frame: results.landmarks is empty
NoHand == -1

\* getSmoothedHandHeight: push, and shift once the window is exceeded
Pushed(history, y) ==
  IF Len(history) + 1 > SmoothingWindow THEN Tail(Append(history, y))
  ELSE Append(history, y)

RepCountedAnyDown(state, deltaY) == deltaY > MovementThreshold

\* a full cycle is completed: a downward movement above the threshold while
\* the machine is in moving_up
RepCounted(state, deltaY) == deltaY > MovementThreshold /\ state = "moving_up"

\* the directional tracking of detectHands
Tracked(state, deltaY) ==
  IF deltaY < -MovementThreshold
    THEN IF state \in {"idle", "moving_down"} THEN "moving_up" ELSE state
  ELSE IF deltaY > MovementThreshold
    THEN IF state \in {"moving_up", "idle"} THEN "moving_down" ELSE state
  ELSE state

\* one frame of detectHands with the wrist at handY, or with no hand
DetectHands(handY) ==
  /\ repCount < MaxReps
  /\ IF handY = NoHand
       THEN UNCHANGED repvars
       ELSE /\ handHistoryRef' = Pushed(handHistoryRef, handY)
            /\ IF lastHandYRef # NoY
                 THEN /\ stateRef' = Tracked(stateRef, handY - lastHandYRef)
                      /\ repCount' = IF RepCounted(stateRef, handY - lastHandYRef)
                                       THEN repCount + 1 ELSE repCount
                 ELSE UNCHANGED <<stateRef, repCount>>
            /\ lastHandYRef' = handY
  /\ UNCHANGED <<variant, connected, closed, rooms, order, members, out, last, before,
                 events, supplied, cvars, rvars, game>>

\* resetCount, the Reset button
ResetCount ==
  /\ repCount' = 0
  /\ stateRef' = "idle"
  /\ handHistoryRef' = <<>>
  /\ lastHandYRef' = NoY
  /\ UNCHANGED <<variant, connected, closed, rooms, order, members, out, last, before,
                 events, supplied, cvars, rvars, game>>

NextRep ==
  \/ \E handY \in HandYs \cup {NoHand} : DetectHands(handY)
  \/ ResetCount

SpecRep == Init /\ [][NextRep]_vars

\* ----------------------------------------------------------------- claims
Ids(ps) == { ps[i].id : i \in 1..Len(ps) }

ErrorOnlyTo(c) == Len(out) = 1 /\ out[1].ev = "error" /\ out[1].to = {c}

\* C1: no room ever holds more players than its capacity (4 in server.js, 2 in
\* the two-player server), and a join-room to a room that is at capacity sends
\* an error to the requester only and leaves the room's players unchanged.
C1_Capacity ==
  /\ \A k \in DOMAIN rooms : Len(rooms[k].players) <= Capacity
  /\ \A k \in DOMAIN before :
       (last.ev = "join-room" /\ last.roomCode = k /\ Len(before[k].players) >= Capacity)
         => /\ ErrorOnlyTo(last.from)
            /\ k \in DOMAIN rooms
            /\ rooms[k].players = before[k].players

C1_Witness ==
  /\ IsFour
  /\ last.ev = "join-room"
  /\ Len(out) = 1 /\ out[1].ev = "error" /\ out[1].text = "Room is full (max 4 players)"
  /\ Len(rooms[last.roomCode].players) = MaxPlayers

\* C2: create-room never assigns the code of a room that is in the registry,
\* so every room that was live before a create-room is still there, unaltered.
C2_UniqueCodes ==
  (last.ev = "create-room")
    => /\ last.roomCode \notin DOMAIN before
       /\ \A k \in DOMAIN before : k \in DOMAIN rooms /\ rooms[k] = before[k]

\* C3: a start-game from a connection that is not the room's creator sends an
\* error to that requester only, broadcasts no game-start and leaves the
\* registry (started flag, players, config) as it was.
C3_NonCreatorStart ==
  \A k \in DOMAIN before :
    (IsFour /\ last.ev = "start-game" /\ last.roomCode = k /\ last.from # before[k].creator)
      => /\ ErrorOnlyTo(last.from)
         /\ rooms = before

C3_Witness ==
  /\ IsFour
  /\ last.ev = "start-game"
  /\ last.roomCode \in DOMAIN rooms
  /\ last.from # rooms[last.roomCode].creator
  /\ Len(out) = 1 /\ out[1].text = "Only the room creator can start the game"
  /\ Len(rooms[last.roomCode].players) >= 2
  /\ ~rooms[last.roomCode].gameStarted

Announces(m) == m.ev \in {"game-start", "game-restart"}

\* C4: only the creator can start a round: no event of a connection that is not
\* the room's creator turns the room's started flag from false to true or has a
\* start or restart announcement broadcast.
C4_OnlyCreatorStarts ==
  IsFour =>
    \A k \in (DOMAIN before) \cap (DOMAIN rooms) :
      (last.from # before[k].creator)
        => /\ rooms[k].gameStarted => before[k].gameStarted
           /\ \A i \in 1..Len(out) : ~Announces(out[i])

\* C5: no orphan rooms: every room in the registry has at least one player; a
\* room is created with exactly one player, the caller, recorded as creator;
\* no state shows a room whose last player has been removed.
C5_NoOrphanRooms ==
  /\ \A k \in DOMAIN rooms : Len(rooms[k].players) >= 1
  /\ (last.ev = "create-room")
       => /\ last.roomCode \in DOMAIN rooms
          /\ Len(rooms[last.roomCode].players) = 1
          /\ rooms[last.roomCode].players[1].id = last.from
          /\ IsFour => rooms[last.roomCode].creator = last.from

C5_Witness ==
  /\ last.ev = "disconnect"
  /\ \E k \in DOMAIN before :
       /\ Ids(before[k].players) = {last.from}
       /\ k \notin DOMAIN rooms

\* C6: a join-room to a room that has not started, followed by the disconnect
\* of the same connection, leaves the room equal to what it was before the
\* join; if the connection was the room's only member the room is deleted.
C6_JoinLeaveRoundTrip ==
  [][ \A c \in Conns, k \in DOMAIN before :
        ( /\ last = Event("join-room", c, k)
          /\ Len(out) >= 1 /\ out[1].ev = "player-joined"
          /\ ~rooms[k].gameStarted
          /\ last' = Event("disconnect", c, NoCode) )
        => IF Ids(before[k].players) = {c}
             THEN k \notin DOMAIN rooms'
             ELSE k \in DOMAIN rooms' /\ rooms'[k] = before[k] ]_vars

\* index of the first player that has the maximum score
FirstMax(ps) ==
  CHOOSE i \in 1..Len(ps) :
    /\ \A j \in 1..Len(ps) : ps[j].score <= ps[i].score
    /\ \A j \in 1..(i - 1) : ps[j].score < ps[i].score

\* C7: the winner broadcast by game-over is a player with the maximum score of
\* the room, and among several with the maximum the one that joined first.
C7_Winner ==
  (last.ev = "game-over" /\ last.roomCode \in DOMAIN rooms)
    => LET ps == rooms[last.roomCode].players
       IN /\ Len(out) = 1 /\ out[1].ev = "game-over"
          /\ out[1].to = members[last.roomCode]
          /\ out[1].winner = ps[FirstMax(ps)]

C7_Witness ==
  /\ last.ev = "game-over" /\ last.roomCode \in DOMAIN rooms
  /\ LET ps == rooms[last.roomCode].players
     IN /\ Len(ps) >= 3
        /\ \E i, j \in 1..Len(ps) :
             /\ i < j
             /\ ps[i].score = ps[j].score /\ ps[i].score > 0
             /\ \A h \in 1..Len(ps) : ps[h].score <= ps[i].score
             /\ ps[i] # ps[j]
             /\ out[1].winner = ps[i]

\* C8: update-score is idempotent: a second update-score with the same value
\* from the same member right after the first emits the same broadcast again
\* and leaves the registry as the first left it.
C8_Idempotent ==
  [][ \A c \in Conns, k \in DOMAIN rooms, s \in Scores :
        ( /\ last = Event("update-score", c, k)
          /\ Len(out) = 1 /\ out[1].ev = "score-update"
          /\ Find(rooms[k].players, c) # 0
          /\ rooms[k].players[Find(rooms[k].players, c)].score = s
          /\ last' = Event("update-score", c, k)
          /\ UpdateScore(c, k, s) )
        => /\ out' = out
           /\ rooms' = rooms ]_vars

C8_Witness ==
  /\ last.ev = "update-score"
  /\ Len(out) = 1 /\ out[1].ev = "score-update"
  /\ before = rooms
  /\ LET ps == rooms[last.roomCode].players
     IN ps[Find(ps, last.from)].score = MaxScore /\ Len(ps) >= 2
  /\ out[1].players = rooms[last.roomCode].players

\* the ready phase of room k is over: each of its players is in the race, has
\* ended its hand tracking setup, has no ready timeout left, and nothing it
\* sent or is to receive is still on the way
ReadyPhaseOver(k) ==
  \A c \in Ids(rooms[k].players) :
    /\ c \in connected
    /\ gameState[c] = "racing"
    /\ handInits[c] = 0
    /\ readyTimers[c].pending = 0
    /\ inbox[c] = <<>>
    /\ outbox[c] = <<>>

\* C9: start-sync convergence, the "never zero" half: once a started room's
\* players have all sent player-ready or had their ready timeout fire, and
\* every message has been handled, the epoch broadcast (all-players-ready) of
\* the round has been emitted and each of them has received its start time.
C9_EpochEmitted ==
  \A k \in DOMAIN rooms :
    (rooms[k].gameStarted /\ ReadyPhaseOver(k))
      => \A c \in Ids(rooms[k].players) : sharedStartTime[c] # 0

Quiet ==
  \A c \in Conns : inbox[c] = <<>> /\ outbox[c] = <<>> /\ winnerTimers[c] = <<>>

\* C10: last player standing: when a death event has taken a component's alive
\* set from two members to one, and every timer and message that followed has
\* been handled, exactly one winner-declared event (winner-found with a
\* winner) has been sent, by all components together.
C10_OneWinnerDeclared ==
  ( /\ recv.ev = "player-died"
    /\ recv.to \in connected
    /\ recv.playerId \in recv.alive
    /\ Cardinality(recv.alive) = 2
    /\ alivePlayers[recv.to] = recv.alive \ {recv.playerId}
    /\ Quiet )
    => declared = 1

\* a death event has just taken the alive set of the component it was handled
\* by from two members to one, and all that followed has been handled
DownToOne ==
  /\ recv.ev = "player-died"
  /\ recv.to \in connected
  /\ recv.playerId \in recv.alive
  /\ Cardinality(recv.alive) = 2
  /\ alivePlayers[recv.to] = recv.alive \ {recv.playerId}
  /\ Quiet

\* C11: when deaths have left one survivor and every message they caused has
\* been handled, the survivor's score in the room is its score before the last
\* death plus 1 and every other player's score is unchanged. (No score is
\* reported during the rounds of this specification, so each score before the
\* last death is the 0 the player was pushed with.)
C11_SurvivorPlusOne ==
  DownToOne =>
    \A k \in DOMAIN rooms :
      (k = roomCodeRef[recv.to] /\ Ids(rooms[k].players) = recv.alive)
        => \A i \in 1..Len(rooms[k].players) :
             rooms[k].players[i].score =
               IF rooms[k].players[i].id \in alivePlayers[recv.to] THEN 1 ELSE 0

\* C12: a join-room naming a code that is not in the registry sends the error
\* 'Room not found' to the requester only; nothing else is emitted, no room is
\* created and no room changes.
C12_JoinUnknown ==
  (last.ev = "join-room" /\ last.roomCode \notin DOMAIN before)
    => /\ ErrorOnlyTo(last.from)
       /\ out[1].text = "Room not found"
       /\ rooms = before

C12_Witness ==
  /\ last.ev = "join-room"
  /\ last.roomCode \notin DOMAIN before
  /\ DOMAIN before # {}
  /\ connected = Conns
  /\ \E k \in DOMAIN rooms : last.from \notin Ids(rooms[k].players)
  /\ Len(out) = 1 /\ out[1].text = "Room not found"

RoomEvents == {"start-game", "game-over", "update-score", "update-position",
               "player-died", "restart-game", "update-multiplier", "bird-flap"}

\* C13: for every inbound message kind that carries a room code, a code that
\* is not in the registry gets an error sent to the sender only; the registry
\* is not changed and nothing is broadcast or relayed.
C13_UnknownCode ==
  (IsFour /\ last.ev \in RoomEvents /\ last.roomCode \notin DOMAIN before)
    => /\ ErrorOnlyTo(last.from)
       /\ rooms = before

\* C14: every id in the alive set a component tracks for the round is the id
\* of a player in the room's players list. Stated in the case the claim singles
\* out: a closed connection is in no players list, so once a component has
\* handled all it was sent, the alive set of a player of a live room holds no
\* closed connection's id.
C14_AliveArePlayers ==
  \A c \in connected :
    ( /\ gameState[c] = "racing" /\ inbox[c] = <<>>
      /\ roomCodeRef[c] \in DOMAIN rooms
      /\ c \in Ids(rooms[roomCodeRef[c]].players) )
      => alivePlayers[c] \cap closed = {}

\* C15: when a disconnect removes the last player of a room, the room is
\* deleted and the handler emits nothing for it: what the handler emits is one
\* player-left per room that is still in the registry, in registry order, to
\* that room, with the players that room has now.
C15_DeleteIsSilent ==
  (last.ev = "disconnect")
    => /\ \A k \in DOMAIN before :
            (Ids(before[k].players) \subseteq {last.from}) => k \notin DOMAIN rooms
       /\ Len(out) = Len(order)
       /\ \A i \in 1..Len(out) :
            /\ out[i].ev = "player-left"
            /\ out[i].to = members[order[i]]
            /\ out[i].players = rooms[order[i]].players

C15_Witness ==
  /\ last.ev = "disconnect"
  /\ \E k \in DOMAIN before :
       /\ k \notin DOMAIN rooms
       /\ before[k].players # <<>>
       /\ Ids(before[k].players) = {last.from}
  /\ Len(out) >= 1
  /\ out[1].to # {}

IsSuffix(s, t) ==
  /\ Len(s) <= Len(t)
  /\ SubSeq(t, Len(t) - Len(s) + 1, Len(t)) = s

\* what of the messages still to be handled by c was sent to both c and d
Shared(c, d) == SelectSeq(inbox[c], LAMBDA m : {c, d} \subseteq m.to)

\* C16: the server is the linearization point of a room: every player-joined,
\* score-update, game-start and player-left broadcast carries the players list
\* of its room as the registry has it after the handler's mutation; and any two
\* open sockets see the messages sent to both in one order, the order in which
\* the server emitted them: of what the two have yet to handle, one's part is
\* the tail of the other's.
C16_Linearization ==
  /\ \A i \in 1..Len(out) :
       /\ (out[i].ev \in {"player-joined", "score-update", "game-start"})
            => /\ last.roomCode \in DOMAIN rooms
               /\ out[i].players = rooms[last.roomCode].players
       /\ (out[i].ev = "player-left")
            => /\ i <= Len(order)
               /\ out[i].players = rooms[order[i]].players
  /\ \A c, d \in connected :
       IsSuffix(Shared(c, d), Shared(d, c)) \/ IsSuffix(Shared(d, c), Shared(c, d))

C16_Witness ==
  /\ last.ev = "update-score"
  /\ Len(out) = 1 /\ out[1].ev = "score-update"
  /\ out[1].players[1].score = MaxScore
  /\ \E c, d \in connected :
       /\ c # d
       /\ Len(Shared(c, d)) >= 2
       /\ Shared(d, c) = Tail(Shared(c, d))
       /\ Shared(c, d)[1].ev = "player-joined"
       /\ Shared(c, d)[2].ev = "score-update"

\* C17: ready-handshake liveness, as the state it must lead to: a component in
\* the race whose ready timeout has fired, whose force-start-countdown the
\* server has taken and which has handled all it was sent has been delivered
\* the epoch (all-players-ready), whether or not the other players, or itself,
\* ever sent player-ready.
C17_TimeoutForcesEpoch ==
  \A c \in connected :
    ( /\ gameState[c] = "racing"
      /\ readyTimers[c].pending = 0
      /\ outbox[c] = <<>>
      /\ inbox[c] = <<>> )
      => sharedStartTime[c] # 0

\* C18: reveal is self-healing on every client, the host included: after a
\* client has applied reveal index k, every pipe with stream index 0..k that
\* is still in its list is visible.
C18_RevealedAreVisible ==
  \A c \in Conns :
    \A i \in 1..Len(pipes[c]) :
      (pipes[c][i].index <= revealedPipeIndex[c]) => pipes[c][i].visible

\* C19: a rematch keeps the running tally: once a restart of a round has been
\* handled by the server and its announcement by the components, the room's
\* players list, scores included, is as it was before the restart, and the
\* alive set of every player of the room who is in the race is exactly the set
\* of the room's players.
C19_RematchKeepsTally ==
  ( /\ last.ev = "restart-game"
    /\ last.roomCode \in (DOMAIN before) \cap (DOMAIN rooms)
    /\ \A c \in Conns : inbox[c] = <<>> )
    => /\ rooms[last.roomCode].players = before[last.roomCode].players
       /\ \A c \in connected \cap Ids(rooms[last.roomCode].players) :
            (gameState[c] = "racing" /\ roomCodeRef[c] = last.roomCode)
              => alivePlayers[c] = Ids(rooms[last.roomCode].players)

\* C20: a room's config is captured at creation and immutable: in every state
\* the time limit stored in a room is the value its create-room supplied, and
\* every start announcement carries that value and the room's full current
\* players list.
C20_ConfigAsSupplied ==
  /\ \A k \in DOMAIN rooms : rooms[k].timeLimit = supplied[k]
  /\ \A i \in 1..Len(out) :
       Announces(out[i])
         => /\ last.roomCode \in DOMAIN rooms
            /\ out[i].timeLimit = supplied[last.roomCode]
            /\ out[i].players = rooms[last.roomCode].players

\* C21: a disconnect has leave-room semantics only for the rooms the
\* connection was in: a room that did not contain it is still in the registry
\* with its state unchanged, and none of the handler's broadcasts is for it.
C21_OnlyOwnRooms ==
  (last.ev = "disconnect")
    => /\ \A k \in DOMAIN before :
            (last.from \notin Ids(before[k].players))
              => (k \in DOMAIN rooms /\ rooms[k] = before[k])
       /\ \A i \in 1..Len(out) :
            (out[i].ev = "player-left" /\ i <= Len(order))
              => last.from \in Ids(before[order[i]].players)

\* C22: if a player leaves a room whose start has been announced, the
\* handshake is abandoned: the started flag of the room, if the room remains,
\* is false again after the disconnect.
C22_LeaveAbandonsStart ==
  \A k \in (DOMAIN before) \cap (DOMAIN rooms) :
    ( /\ IsFour
      /\ last.ev = "disconnect"
      /\ before[k].gameStarted
      /\ last.from \in Ids(before[k].players) )
      => ~rooms[k].gameStarted

Emitted(c, ev) == \E i \in 1..Len(outbox[c]) : outbox[c][i].ev = ev

\* C23: no stale timer acts on a later state: a ready-handshake timeout that
\* emits force-start-countdown is the one readyTimeoutRef holds, the timeout of
\* the component's latest game-start, and no older timeout is pending with it.
C23_NoStaleTimer ==
  [][ \A c \in Conns :
        ( /\ readyTimers'[c].pending < readyTimers[c].pending
          /\ Len(outbox'[c]) > Len(outbox[c]) )
        => (readyTimers[c].latest /\ readyTimers[c].pending = 1) ]_vars

\* the countdown of c has ended and the game runs
Counted(c) == game[c].isGameRunning /\ game[c].intervals = <<>>

\* C24: two components whose countdowns ended for the same
\* all-players-ready(startTime) hold the same game start time,
\* startTime + 3000 ms, whenever each of them received the message.
C24_EpochAnchored ==
  \A c, d \in Conns :
    (Counted(c) /\ Counted(d) /\ game[c].epoch = game[d].epoch)
      => /\ game[c].gameStartTime = game[c].epoch + CountdownMs
         /\ game[c].gameStartTime = game[d].gameStartTime

C24_Witness ==
  \E c, d \in Conns :
    /\ Counted(c) /\ Counted(d)
    /\ game[c].epoch = game[d].epoch
    /\ game[c].receivedAt # game[d].receivedAt
    /\ game[c].gameStartTime = game[d].gameStartTime
    /\ game[c].gameStartTime = game[c].epoch + CountdownMs

\* C25: once the countdown of a component's first round has ended after a
\* forced start, the game keeps running and the game start time stays set in
\* every step but the handling of return-to-lobby; the camera setup of that
\* round, ending late, does not reset them.
C25_CountdownSticks ==
  [][ \A c \in Conns :
        ( /\ game[c].isGameRunning
          /\ handInits[c] = 1
          /\ ~Emitted(c, "player-ready")
          /\ Emitted(c, "force-start-countdown")
          /\ ~(inbox[c] # <<>> /\ Head(inbox[c]).ev = "return-to-lobby"
                             /\ inbox'[c] = Tail(inbox[c])) )
        => (game'[c].isGameRunning /\ game'[c].gameStartTime # 0) ]_vars

\* C26: single reveal authority: a component that is a player of a room and
\* has emitted reveal-pipe for it is the creator of that room.
C26_SingleAuthority ==
  \A c \in Conns : \A i \in 1..Len(outbox[c]) :
    ( /\ outbox[c][i].ev = "reveal-pipe"
      /\ outbox[c][i].roomCode \in DOMAIN rooms
      /\ c \in Ids(rooms[outbox[c][i].roomCode].players) )
      => c = rooms[outbox[c][i].roomCode].creator

IdSeq(ps) == [i \in 1..Len(ps) |-> ps[i].id]

\* C27: join order is preserved: a join-room that succeeds puts the new
\* player, with score 0, behind the players the room had; a disconnect leaves
\* the other entries in the order they had; every other event leaves the
\* sequence of ids of each room it does not create as it was.
C27_JoinOrder ==
  /\ \A k \in DOMAIN before :
       ( /\ last.ev = "join-room" /\ last.roomCode = k
         /\ Len(out) >= 1 /\ out[1].ev = "player-joined" )
       => /\ k \in DOMAIN rooms
          /\ Len(rooms[k].players) = Len(before[k].players) + 1
          /\ SubSeq(rooms[k].players, 1, Len(before[k].players)) = before[k].players
          /\ rooms[k].players[Len(rooms[k].players)].id = last.from
          /\ rooms[k].players[Len(rooms[k].players)].score = 0
  /\ (last.ev = "disconnect")
       => \A k \in DOMAIN rooms :
            /\ k \in DOMAIN before
            /\ rooms[k].players =
                 SelectSeq(before[k].players, LAMBDA p : p.id # last.from)
  /\ (last.ev \notin {"join-room", "disconnect"})
       => \A k \in (DOMAIN rooms) \cap (DOMAIN before) :
            (last.ev = "create-room" /\ last.roomCode = k)
              \/ IdSeq(rooms[k].players) = IdSeq(before[k].players)

C27_Witness ==
  /\ last.ev = "join-room"
  /\ Len(out) >= 1 /\ out[1].ev = "player-joined"
  /\ LET ps == rooms[last.roomCode].players
     IN /\ Len(ps) >= 2
        /\ ps[1].score > 0
        /\ ps[Len(ps)].id = last.from /\ ps[Len(ps)].score = 0
        /\ ps[1].id # last.from

\* C28: an update-score from connection c naming room k with value s changes
\* nothing but the score of an entry of c in k, which becomes s; when c has no
\* entry in k, or k is not live, the registry stays as it was and no
\* score-update is emitted.
C28_ScoreFrame ==
  [][ \A c \in Conns, k \in Codes, s \in Scores :
        (UpdateScore(c, k, s) /\ last' = Event("update-score", c, k))
        => /\ DOMAIN rooms' = DOMAIN rooms
           /\ \A j \in (DOMAIN rooms) \ {k} : rooms'[j] = rooms[j]
           /\ IF k \in DOMAIN rooms /\ c \in Ids(rooms[k].players)
                THEN /\ [rooms'[k] EXCEPT !.players = <<>>] = [rooms[k] EXCEPT !.players = <<>>]
                     /\ Len(rooms'[k].players) = Len(rooms[k].players)
                     /\ \A i \in 1..Len(rooms[k].players) :
                          /\ [rooms'[k].players[i] EXCEPT !.score = 0]
                               = [rooms[k].players[i] EXCEPT !.score = 0]
                          /\ (rooms[k].players[i].id # c)
                               => rooms'[k].players[i] = rooms[k].players[i]
                     /\ \E i \in 1..Len(rooms[k].players) :
                          rooms'[k].players[i].id = c /\ rooms'[k].players[i].score = s
                ELSE /\ rooms' = rooms
                     /\ \A i \in 1..Len(out') : out'[i].ev # "score-update" ]_vars

C28_Witness ==
  /\ last.ev = "update-score"
  /\ last.roomCode \in (DOMAIN rooms) \cap (DOMAIN before)
  /\ Cardinality(DOMAIN rooms) >= 2
  /\ LET ps == rooms[last.roomCode].players
         i == Find(ps, last.from)
     IN /\ Cardinality(Ids(ps)) >= 2
        /\ i # 0
        /\ ps[i].score = MaxScore
        /\ before[last.roomCode].players[i].score = 0
        /\ \A j \in 1..Len(ps) : (j # i) => ps[j] = before[last.roomCode].players[j]

\* C29: player ids are unique within a room: no room's players list holds two
\* entries with the same connection id.
C29_UniqueIds ==
  IsFour =>
    \A k \in DOMAIN rooms : \A i, j \in 1..Len(rooms[k].players) :
      (i # j) => rooms[k].players[i].id # rooms[k].players[j].id

\* C30: a room's creator is never reassigned: no event but a create-room of
\* the room's code changes it, and once the creator's connection has closed
\* every start-game for the room is answered with the only-creator error, to
\* the requester alone, and changes nothing.
C30_CreatorStays ==
  IsFour =>
    /\ \A k \in (DOMAIN rooms) \cap (DOMAIN before) :
         (last.ev = "create-room" /\ last.roomCode = k)
           \/ rooms[k].creator = before[k].creator
    /\ \A k \in DOMAIN before :
         ( /\ last.ev = "start-game" /\ last.roomCode = k
           /\ before[k].creator \in closed )
         => /\ ErrorOnlyTo(last.from)
            /\ out[1].text = "Only the room creator can start the game"
            /\ rooms = before

\* the last handler emitted one message, to the sockets of tos
SentTo(tos) == Len(out') = 1 /\ out'[1].to = tos

\* C31: update-position (for a room of the registry), bird-flap, webrtc-offer
\* and room-addressed webrtc-ice go to every other socket joined to the named
\* room and not to the sender; webrtc-answer and addressed webrtc-ice go to
\* the target socket only; none of them changes the registry.
C31_Relays ==
  [][ \A c \in Conns :
        /\ \A k \in Codes :
             /\ (IsFour /\ k \in DOMAIN rooms /\ last' = Event("update-position", c, k))
                  => (SentTo(members[k] \ {c}) /\ rooms' = rooms)
             /\ (IsFour /\ last' = Event("bird-flap", c, k))
                  => (SentTo(members[k] \ {c}) /\ rooms' = rooms)
             /\ (last' = Event("webrtc-offer", c, k))
                  => (SentTo(members[k] \ {c}) /\ rooms' = rooms)
             /\ (WebrtcIce(c, NoConn, k) /\ last' = Event("webrtc-ice", c, k))
                  => (SentTo(members[k] \ {c}) /\ rooms' = rooms)
        /\ \A t \in Conns :
             /\ (WebrtcAnswer(c, t) /\ last' = Event("webrtc-answer", c, NoCode))
                  => (SentTo({t} \cap connected) /\ rooms' = rooms)
             /\ \A k \in Codes \cup {NoCode} :
                  (WebrtcIce(c, t, k) /\ last' = Event("webrtc-ice", c, k))
                    => (SentTo({t} \cap connected) /\ rooms' = rooms) ]_vars

C31_Witness ==
  /\ IsFour
  /\ last.ev \in {"update-position", "bird-flap", "webrtc-offer"}
  /\ last.roomCode \in DOMAIN rooms
  /\ Cardinality(members[last.roomCode]) >= 2
  /\ last.from \in members[last.roomCode]
  /\ Len(out) = 1
  /\ out[1].to = members[last.roomCode] \ {last.from}
  /\ rooms = before

\* C32: no-winner tie: when the deaths of the last two alive players have
\* been handled one after the other, so that a component's alive set is empty,
\* and all that followed has been handled, no player has been given a point
\* and the component is back in the lobby.
C32_TieToLobby ==
  \A k \in DOMAIN rooms :
    ( /\ recv.ev = "player-died"
      /\ recv.to \in connected
      /\ recv.alive = {recv.playerId}
      /\ alivePlayers[recv.to] = {}
      /\ k = roomCodeRef[recv.to]
      /\ Len(rooms[k].players) = 2
      /\ Quiet )
    => /\ \A i \in 1..Len(rooms[k].players) : rooms[k].players[i].score = 0
       /\ gameState[recv.to] = "lobby"

\* C33: once the server has handled game-over for a started room, the step
\* that follows, unless it starts the next round, leaves the stored score of
\* every player of that room as it was.
C33_ScoresFrozen ==
  [][ \A k \in DOMAIN rooms :
        ( /\ IsFour
          /\ last.ev = "game-over"
          /\ last.roomCode = k
          /\ rooms[k].gameStarted
          /\ k \in DOMAIN rooms'
          /\ last'.ev \notin {"start-game", "restart-game"} )
        => \A i \in 1..Len(rooms[k].players), j \in 1..Len(rooms'[k].players) :
             (rooms[k].players[i].id = rooms'[k].players[j].id)
               => rooms'[k].players[j].score = rooms[k].players[i].score ]_vars

\* C34: when the server handles game-over for a started room and so decides
\* the round's outcome, the room does not stay started: it is back to forming
\* (gameStarted false) with the same players.
C34_BackToForming ==
  [][ \A c \in Conns, k \in DOMAIN rooms :
        (IsFour /\ rooms[k].gameStarted /\ last' = Event("game-over", c, k)
           /\ Len(out') = 1 /\ out'[1].ev = "game-over")
        => /\ k \in DOMAIN rooms'
           /\ rooms'[k].players = rooms[k].players
           /\ ~rooms'[k].gameStarted ]_vars

\* C35: between one startGame and the next a component emits player-died at
\* most once, and once it has emitted it, it emits no update-score for a
\* passed pipe.
C35_DiesOnce ==
  \A c \in Conns : game[c].died <= 1 /\ ~game[c].scoredDead

\* a dead player's loop still runs, with a pipe left to pass and its
\* player-died and an earlier update-score sent
C35_Witness ==
  \E c \in Conns :
    /\ game[c].died = 1
    /\ game[c].gameOver
    /\ game[c].isGameRunning
    /\ \E i, j \in 1..Len(pipes[c]) : pipes[c][i].passed /\ ~pipes[c][j].passed
    /\ Emitted(c, "player-died")

\* C36: the rep count goes up by exactly one on a frame whose downward
\* movement is above the threshold while the machine is in moving_up, which
\* moves it to moving_down, and on no other step, so that downward movements
\* in a row count one rep; resetCount gives idle, count 0 and no history.
C36_RepMachine ==
  [][ /\ (repCount' > repCount)
          => /\ repCount' = repCount + 1
             /\ stateRef = "moving_up" /\ stateRef' = "moving_down"
             /\ lastHandYRef # NoY /\ lastHandYRef' # NoY
             /\ lastHandYRef' - lastHandYRef > MovementThreshold
      /\ \A handY \in HandYs :
           ( /\ DetectHands(handY)
             /\ lastHandYRef # NoY
             /\ handY - lastHandYRef > MovementThreshold )
           => /\ repCount' = repCount + (IF stateRef = "moving_up" THEN 1 ELSE 0)
              /\ stateRef' = "moving_down"
      /\ ResetCount
           => /\ repCount' = 0 /\ stateRef' = "idle"
              /\ handHistoryRef' = <<>> /\ lastHandYRef' = NoY ]_vars

\* reps have been counted, the last one by the frame that went down
C36_Witness ==
  /\ repCount = MaxReps
  /\ stateRef = "moving_down"
  /\ Len(handHistoryRef) = SmoothingWindow

C30_Witness ==
  /\ IsFour
  /\ last.ev = "start-game"
  /\ last.roomCode \in DOMAIN rooms
  /\ rooms[last.roomCode].creator \in closed
  /\ last.from \in Ids(rooms[last.roomCode].players)
  /\ ErrorOnlyTo(last.from)
  /\ out[1].text = "Only the room creator can start the game"
====
